---- MODULE Spec2Model ----
(***************************************************************************)
(* The DALL-E mini inference pipeline of                                   *)
(* tools/inference/inference_pipeline.ipynb: seed, key splitting,          *)
(* data-parallel generation and decoding, CLIP scoring and ranked display. *)
(*                                                                         *)
(* Reals are fixed-point thousandths (1000 stands for 1.0).  PRNG keys are *)
(* their derivation paths from the seed: PRNGKey(s) is <<s>> and child j   *)
(* of a split appends j.  The pretrained models are opaque deterministic   *)
(* functions revealed lazily: genMemo is model.generate as a function of   *)
(* the sub-seed, clipMemo is the CLIP logit as a function of the image.    *)
(***************************************************************************)
EXTENDS Integers, Sequences, FiniteSets, TLC

\* ---------------------------------------------------------------- bounds
MaxPredictions == 4
MaxDevices == 2
MaxSeed == 1
NumCodes == 3

\* ------------------------------------------------------ program constants
BOS == 0
PixelScale == 255
Uint8Range == 256
One == 1000

prompt == "a red T-shirt"

\* CLIP logits, in hundredths
Scores == {33, 71, 95}

Codes == 1..NumCodes

VARIABLES
    n_predictions,      \* number of predictions
    device_count,       \* jax.device_count()
    seed,               \* random.randint(0, 2 ** 32 - 1)
    key,                \* the carried PRNG key
    subkey,             \* the subkey of the current iteration
    keys,               \* shard_prng_key(subkey): one sub-seed per worker
    tokenized_prompt,   \* the sharded tokenized prompt
    i,                  \* loop counter of the generation loop
    pc,                 \* position in the notebook
    encoded_images,     \* per worker, per row: a token sequence
    raw_images,         \* p_decode's result, before clip and reshape
    decoded_images,     \* after clip and reshape: a flat sequence
    images,             \* the image list (one uint8 pixel per image)
    clip_shards,        \* shard(clip_inputs)
    logits,             \* flat score sequence
    shown,              \* what the ranked display loop presented
    genMemo,            \* model.generate, as revealed so far
    clipMemo,           \* CLIP logits_per_image, as revealed so far
    handed,             \* history: per iteration, the keys of that iteration
    stages,             \* history: the stages executed, in order
    prev                \* outcome of the previous run of the notebook

vars == <<n_predictions, device_count, seed, key, subkey, keys,
          tokenized_prompt, i, pc, encoded_images, raw_images,
          decoded_images, images, clip_shards, logits, shown, genMemo,
          clipMemo, handed, stages, prev>>

\* ------------------------------------------------------------ PRNG keys
PRNGKey(s) == <<s>>

\* jax.random.split(k, num): num children of k
split(k, num) == [j \in 1..num |-> Append(k, j - 1)]

\* flax shard_prng_key: one key per device
shard_prng_key(k, d) == split(k, d)

\* ------------------------------------------------------- device sharding
\* a sharding that deals the rows out round-robin
shard_strided(x, d) ==
    [w \in 1..d |-> [j \in 1..(Len(x) \div d) |-> x[(j - 1) * d + w]]]

\* flax shard: reshape to (device_count, -1, ...), row-major
shard(x, d) ==
    [w \in 1..d |-> SubSeq(x, (w - 1) * (Len(x) \div d) + 1,
                              w * (Len(x) \div d))]

\* a merge that reads the workers' results back to front
reshape_flat_reversed(x, b) ==
    [m \in 1..(Len(x) * b) |->
        x[Len(x) - ((m - 1) \div b)][((m - 1) % b) + 1]]

\* reshape((-1, ...)) of a per-worker array with b rows per worker
reshape_flat(x, b) ==
    [m \in 1..(Len(x) * b) |-> x[((m - 1) \div b) + 1][((m - 1) % b) + 1]]

\* ------------------------------------------------------------- tokenizer
\* one row per repeated prompt; a row is abstracted to the text it encodes
tokenizer(repeated_prompts) == repeated_prompts

repeat(x, d) == [w \in 1..d |-> x]

\* --------------------------------------------------------------- codec
\* vqgan.decode_code: the raw value of a code, outside [0,1] for some
decode_code(t) == (2 * t - 3) * 500

\* a clip that was left out
clip01_missing(x) == x

\* ndarray.clip(0.0, 1.0)
clip01(x) == IF x < 0 THEN 0 ELSE IF x > One THEN One ELSE x

\* truncation toward zero of a fixed-point value
Trunc(x) == IF x >= 0 THEN x \div One ELSE -((-x) \div One)

\* np.asarray(v, dtype=np.uint8) of a float
ToUint8(x) == Trunc(x) % Uint8Range


RECURSIVE Concat(_)
Concat(ss) == IF ss = <<>> THEN <<>> ELSE Head(ss) \o Concat(Tail(ss))

\* ndarray.squeeze().flatten() of a (workers, rows, texts) array: unit axes
\* are dropped and the elements are read out in row-major order
squeeze_flatten(x) == Concat([w \in 1..Len(x) |-> Concat(x[w])])

\* ------------------------------------------------------------- models
\* a generation whose sampling is not driven by the key it is given
GenerateUnkeyed(memo, ks) ==
    {f @@ memo : f \in [ks -> Codes]}

\* the ways model.generate can answer for the sub-seeds ks, given what it
\* has answered so far: a function of the sub-seed
GenerateOutcomes(memo, ks) ==
    {memo @@ f : f \in [ks \ DOMAIN memo -> Codes]}

\* the ways CLIP can answer for the images px: a function of the image
ClipOutcomes(memo, px) ==
    {memo @@ f : f \in [px \ DOMAIN memo -> Scores]}

\* p_generate on one worker: one sequence per row of its shard
p_generate(rows, k, memo) == [b \in 1..Len(rows) |-> <<BOS, memo[k]>>]

\* encoded_images.sequences[..., 1:]
remove_BOS(enc) ==
    [w \in 1..Len(enc) |-> [b \in 1..Len(enc[w]) |-> Tail(enc[w][b])]]

\* p_decode on one worker: one raw pixel array per row of its shard
p_decode(rows) == [b \in 1..Len(rows) |-> decode_code(Head(rows[b]))]

\* p_clip on one worker: logits_per_image, (images, texts)
p_clip(inputs, memo) ==
    [j \in 1..Len(inputs.pixel_values) |->
        [t \in 1..Len(inputs.input_ids) |-> memo[inputs.pixel_values[j]]]]

\* ---------------------------------------------------------------- ranking
\* an argsort that ignores the values
argsort_unsorted(s) == [p \in 1..Len(s) |-> p - 1]

\* jax argsort: ascending and stable, 0-based indices
argsort(s) ==
    LET before(k) == Cardinality({j \in 1..Len(s) :
                        s[j] < s[k] \/ (s[j] = s[k] /\ j < k)})
    IN  [p \in 1..Len(s) |-> (CHOOSE k \in 1..Len(s) : before(k) = p - 1) - 1]

\* a reversal that was left out
reversed_missing(s) == s

\* [::-1]
reversed(s) == [p \in 1..Len(s) |-> s[Len(s) + 1 - p]]

\* ------------------------------------------------------------ the notebook
Range(s) == {s[k] : k \in 1..Len(s)}

\* a loop bound rounded up instead of down
IterationsCeil ==
    (n_predictions + device_count - 1) \div device_count

\* trange(n_predictions // jax.device_count())
Iterations == n_predictions \div device_count

EmptyMemo == [x \in {} |-> 0]

\* the cells up to the generation loop, for a given seed
Setup(s) ==
    /\ seed = s
    /\ key = PRNGKey(s)
    /\ subkey = <<>>
    /\ keys = <<>>
    /\ tokenized_prompt =
           shard(tokenizer(repeat(prompt, device_count)), device_count)
    /\ i = 0
    /\ pc = "loop"
    /\ encoded_images = <<>>
    /\ raw_images = <<>>
    /\ decoded_images = <<>>
    /\ images = <<>>
    /\ clip_shards = [input_ids |-> <<>>, pixel_values |-> <<>>]
    /\ logits = <<>>
    /\ shown = <<>>
    /\ handed = <<>>
    /\ stages = <<>>

Init ==
    /\ n_predictions \in 0..MaxPredictions
    /\ device_count \in 1..MaxDevices
    /\ genMemo = EmptyMemo
    /\ clipMemo = EmptyMemo
    /\ prev = <<>>
    /\ \E s \in 0..MaxSeed : Setup(s)

\* a split whose new key is dropped: _, subkey = jax.random.split(key)
SplitNoCarry ==
    /\ pc = "loop"
    /\ i < Iterations
    /\ subkey' = split(key, 2)[2]
    /\ pc' = "generate"
    /\ stages' = Append(stages, "split")
    /\ UNCHANGED <<n_predictions, device_count, seed, key, keys,
                   tokenized_prompt, i, encoded_images, raw_images,
                   decoded_images, images, clip_shards, logits, shown,
                   genMemo, clipMemo, handed, prev>>

\* for i in trange(...): key, subkey = jax.random.split(key)
Split ==
    /\ pc = "loop"
    /\ i < Iterations
    /\ key' = split(key, 2)[1]
    /\ subkey' = split(key, 2)[2]
    /\ pc' = "generate"
    /\ stages' = Append(stages, "split")
    /\ UNCHANGED <<n_predictions, device_count, seed, keys, tokenized_prompt,
                   i, encoded_images, raw_images, decoded_images, images,
                   clip_shards, logits, shown, genMemo, clipMemo, handed,
                   prev>>

\* a loop that can be left before it is exhausted
LoopExitEarly ==
    /\ pc = "loop"
    /\ pc' = "score"
    /\ UNCHANGED <<n_predictions, device_count, seed, key, subkey, keys,
                   tokenized_prompt, i, encoded_images, raw_images,
                   decoded_images, images, clip_shards, logits, shown,
                   genMemo, clipMemo, handed, stages, prev>>

\* the loop is exhausted: on to the scoring cell
LoopExit ==
    /\ pc = "loop"
    /\ ~(i < Iterations)
    /\ pc' = "score"
    /\ UNCHANGED <<n_predictions, device_count, seed, key, subkey, keys,
                   tokenized_prompt, i, encoded_images, raw_images,
                   decoded_images, images, clip_shards, logits, shown,
                   genMemo, clipMemo, handed, stages, prev>>

\* encoded_images = p_generate(tokenized_prompt, shard_prng_key(subkey), ...)
Generate ==
    /\ pc = "generate"
    /\ keys' = shard_prng_key(subkey, device_count)
    /\ genMemo' \in GenerateOutcomes(genMemo, Range(keys'))
    /\ encoded_images' =
           [w \in 1..device_count |->
               p_generate(tokenized_prompt[w], keys'[w], genMemo')]
    /\ handed' = Append(handed, [carried |-> key, subkey |-> subkey,
                                  keys |-> keys'])
    /\ pc' = "strip"
    /\ stages' = Append(stages, "generate")
    /\ UNCHANGED <<n_predictions, device_count, seed, key, subkey,
                   tokenized_prompt, i, raw_images, decoded_images, images,
                   clip_shards, logits, shown, clipMemo, prev>>

\* an exception that is swallowed: the run goes on to the scoring cell
AbortSwallowed ==
    /\ pc' = "score"
    /\ stages' = Append(stages, "error")
    /\ UNCHANGED <<n_predictions, device_count, seed, key, subkey, keys,
                   tokenized_prompt, i, encoded_images, raw_images,
                   decoded_images, images, clip_shards, logits, shown,
                   genMemo, clipMemo, handed, prev>>

\* an exception propagates out of a cell: the run is over
Abort ==
    /\ pc' = "failed"
    /\ stages' = Append(stages, "error")
    /\ UNCHANGED <<n_predictions, device_count, seed, key, subkey, keys,
                   tokenized_prompt, i, encoded_images, raw_images,
                   decoded_images, images, clip_shards, logits, shown,
                   genMemo, clipMemo, handed, prev>>

GenerateFail == pc = "generate" /\ Abort

\* encoded_images = encoded_images.sequences[..., 1:]
RemoveBOS ==
    /\ pc = "strip"
    /\ encoded_images' = remove_BOS(encoded_images)
    /\ pc' = "decode"
    /\ stages' = Append(stages, "strip")
    /\ UNCHANGED <<n_predictions, device_count, seed, key, subkey, keys,
                   tokenized_prompt, i, raw_images, decoded_images, images,
                   clip_shards, logits, shown, genMemo, clipMemo, handed,
                   prev>>

\* decoded_images = p_decode(...); .clip(0.0, 1.0).reshape((-1, 256, 256, 3))
Decode ==
    /\ pc = "decode"
    /\ raw_images' = [w \in 1..device_count |-> p_decode(encoded_images[w])]
    /\ decoded_images' =
           reshape_flat([w \in 1..device_count |->
                            [b \in 1..Len(raw_images'[w]) |->
                                clip01(raw_images'[w][b])]],
                        Len(raw_images'[1]))
    /\ pc' = "append"
    /\ stages' = Append(stages, "decode")
    /\ UNCHANGED <<n_predictions, device_count, seed, key, subkey, keys,
                   tokenized_prompt, i, encoded_images, images, clip_shards,
                   logits, shown, genMemo, clipMemo, handed, prev>>

DecodeFail == pc = "decode" /\ Abort

\* for img in decoded_images: images.append(... np.asarray(img * 255, uint8))
AppendImages ==
    /\ pc = "append"
    /\ images' = images \o [k \in 1..Len(decoded_images) |->
                               ToUint8(decoded_images[k] * PixelScale)]
    /\ i' = i + 1
    /\ pc' = "loop"
    /\ stages' = Append(stages, "append")
    /\ UNCHANGED <<n_predictions, device_count, seed, key, subkey, keys,
                   tokenized_prompt, encoded_images, raw_images,
                   decoded_images, clip_shards, logits, shown, genMemo,
                   clipMemo, handed, prev>>

\* clip_inputs = processor(text=[prompt] * device_count, images=images)
clip_inputs == [input_ids |-> tokenizer(repeat(prompt, device_count)),
                pixel_values |-> images]

\* shard of a dict of arrays: every leaf is sharded
shard_inputs(inputs, d) ==
    [input_ids |-> shard(inputs.input_ids, d),
     pixel_values |-> shard(inputs.pixel_values, d)]

\* logits = p_clip(shard(clip_inputs), clip_params).squeeze().flatten()
Score ==
    /\ pc = "score"
    /\ clip_shards' = shard_inputs(clip_inputs, device_count)
    /\ clipMemo' \in ClipOutcomes(clipMemo, Range(images))
    /\ logits' = squeeze_flatten(
           [w \in 1..device_count |->
               p_clip([input_ids |-> clip_shards'.input_ids[w],
                       pixel_values |-> clip_shards'.pixel_values[w]],
                      clipMemo')])
    /\ pc' = "rank"
    /\ stages' = Append(stages, "score")
    /\ UNCHANGED <<n_predictions, device_count, seed, key, subkey, keys,
                   tokenized_prompt, i, encoded_images, raw_images,
                   decoded_images, images, shown, genMemo, handed, prev>>

ScoreFail == pc = "score" /\ Abort

\* for idx in logits.argsort()[::-1]: display(images[idx]); print(logits[idx])
Rank ==
    /\ pc = "rank"
    /\ shown' = [p \in 1..Len(logits) |->
                    LET idx == reversed(argsort(logits))[p]
                    IN  [idx |-> idx, image |-> images[idx + 1],
                         score |-> logits[idx + 1]]]
    /\ pc' = "done"
    /\ stages' = Append(stages, "rank")
    /\ UNCHANGED <<n_predictions, device_count, seed, key, subkey, keys,
                   tokenized_prompt, i, encoded_images, raw_images,
                   decoded_images, images, clip_shards, logits, genMemo,
                   clipMemo, handed, prev>>

Next ==
    \/ Split
    \/ LoopExit
    \/ Generate
    \/ GenerateFail
    \/ RemoveBOS
    \/ Decode
    \/ DecodeFail
    \/ AppendImages
    \/ Score
    \/ ScoreFail
    \/ Rank

Spec == Init /\ [][Next]_vars

\* the notebook runs its cells one after the other until it ends or fails
FairSpec == Spec /\ WF_vars(Next)

\* the notebook is run a second time from the same seed, with the same
\* prompt, prediction count, devices and models
Rerun ==
    /\ pc = "done"
    /\ prev = <<>>
    /\ prev' = <<[seed |-> seed, handed |-> handed, images |-> images,
                  logits |-> logits, shown |-> shown]>>
    /\ key' = PRNGKey(seed)
    /\ subkey' = <<>>
    /\ keys' = <<>>
    /\ i' = 0
    /\ pc' = "loop"
    /\ encoded_images' = <<>>
    /\ raw_images' = <<>>
    /\ decoded_images' = <<>>
    /\ images' = <<>>
    /\ clip_shards' = [input_ids |-> <<>>, pixel_values |-> <<>>]
    /\ logits' = <<>>
    /\ shown' = <<>>
    /\ handed' = <<>>
    /\ stages' = <<>>
    /\ UNCHANGED <<n_predictions, device_count, seed, tokenized_prompt,
                   genMemo, clipMemo>>

NextRerun == Next \/ Rerun

SpecRerun == Init /\ [][NextRerun]_vars

\* ================================================================ claims
AfterLoop == pc \in {"score", "rank", "done"}

Scored == pc \in {"rank", "done"}

\* C1: the generation loop runs exactly floor(n / d) iterations, each
\* appends exactly d images, so after the loop the list holds R * d images,
\* never more than n and exactly n when d divides n.
C1_LoopCount ==
    LET R == n_predictions \div device_count
    IN  /\ Len(images) = i * device_count
        /\ i <= R
        /\ AfterLoop =>
              /\ i = R
              /\ Cardinality({k \in 1..Len(stages) : stages[k] = "append"}) = R
              /\ Len(images) = R * device_count
              /\ Len(images) <= n_predictions
              /\ (Len(images) = n_predictions) <=>
                     (n_predictions % device_count = 0)

C1_Witness ==
    /\ pc = "done"
    /\ n_predictions = 4
    /\ device_count = 2
    /\ i = 2
    /\ Len(images) = 4

\* C2: after scoring, the flat score sequence has as many entries as the
\* image list and entry k is the CLIP score of image k.
C2_ScoresAligned ==
    Scored =>
        /\ Len(logits) = Len(images)
        /\ \A k \in 1..Len(images) : logits[k] = clipMemo[images[k]]

C2_Witness ==
    /\ pc = "rank"
    /\ device_count = 2
    /\ Len(images) = 4
    /\ logits[2] # logits[3]

\* C3: the ranked display presents every image index exactly once, ordered
\* by descending score, each image with its own score; scores
\* [0.71, 0.95, 0.33] are presented in index order [1, 0, 2].
C3_RankedPermutation ==
    pc = "done" =>
        /\ Len(shown) = Len(images)
        /\ {shown[p].idx : p \in 1..Len(shown)} = 0..(Len(images) - 1)
        /\ \A p \in 1..Len(shown) :
              /\ shown[p].image = images[shown[p].idx + 1]
              /\ shown[p].score = clipMemo[shown[p].image]
        /\ \A p, q \in 1..Len(shown) :
              p < q => shown[p].score >= shown[q].score
        /\ logits = <<71, 95, 33>> =>
              [p \in 1..3 |-> shown[p].idx] = <<1, 0, 2>>

C3_Witness ==
    /\ pc = "done"
    /\ logits = <<71, 95, 33>>
    /\ Len(shown) = 3

\* C4 (as stated): of two images presented one after the other, the earlier
\* one has a strictly greater score.
C4_StrictlyDescending ==
    pc = "done" =>
        \A p \in 1..(Len(shown) - 1) : shown[p].score > shown[p + 1].score

\* C4 (amended): of two images presented one after the other, the earlier
\* one has a score greater than or equal to that of the later one.
C4_NonIncreasing ==
    pc = "done" =>
        \A p \in 1..(Len(shown) - 1) : shown[p].score >= shown[p + 1].score

C4_Witness ==
    /\ pc = "done"
    /\ Len(shown) >= 3
    /\ \E p \in 1..(Len(shown) - 1) : shown[p].score = shown[p + 1].score
    /\ \E p \in 1..(Len(shown) - 1) : shown[p].score > shown[p + 1].score

\* C10: every decoded value is clipped into [0,1] before it is rescaled by
\* 255, so the value converted to uint8 lies in 0..255, the conversion does
\* not wrap, and every stored pixel is an integer in 0..255.
C10_ClippedPixels ==
    /\ \A k \in 1..Len(images) : images[k] \in 0..PixelScale
    /\ pc \in {"append", "loop"} =>
          /\ \A k \in 1..Len(decoded_images) :
                /\ decoded_images[k] >= 0
                /\ decoded_images[k] <= One
                /\ Trunc(decoded_images[k] * PixelScale) \in 0..PixelScale
          /\ Len(decoded_images) = Len(Concat(raw_images))
          /\ \A k \in 1..Len(decoded_images) :
                LET raw == Concat(raw_images)[k]
                IN  /\ raw < 0 => decoded_images[k] = 0
                    /\ raw > One => decoded_images[k] = One
                    /\ raw \in 0..One => decoded_images[k] = raw
    /\ (pc = "loop" /\ i > 0) =>
          \A k \in 1..Len(decoded_images) :
              images[Len(images) - Len(decoded_images) + k]
                  = Trunc(decoded_images[k] * PixelScale)

C10_Witness ==
    /\ pc = "loop"
    /\ i > 0
    /\ \E w \in 1..Len(raw_images) : raw_images[w][1] < 0
    /\ \E w \in 1..Len(raw_images) : raw_images[w][1] > One

\* the pixel stored for a code: decode, clip, rescale, convert
Pixel(t) == ToUint8(clip01(decode_code(t)) * PixelScale)

\* C5: sharding and merging preserve order: worker w gets shard w and its
\* result comes back at position w, so image r*d + w of the list is the one
\* worker w produced in iteration r, and merging the shards of the image
\* list gives the image list back.
C5_ShardRoundTrip ==
    /\ Len(tokenized_prompt) = device_count
    /\ reshape_flat(tokenized_prompt, 1) = tokenizer(repeat(prompt, device_count))
    /\ \A r \in 1..i : \A w \in 1..device_count :
          images[(r - 1) * device_count + w] = Pixel(genMemo[handed[r].keys[w]])
    /\ pc = "strip" =>
          \A w \in 1..device_count :
              encoded_images[w] = <<(<<BOS, genMemo[keys[w]]>>)>>
    /\ Scored =>
          /\ Len(clip_shards.pixel_values) = device_count
          /\ reshape_flat(clip_shards.pixel_values, i) = images
          /\ \A w \in 1..device_count : \A j \in 1..i :
                clip_shards.pixel_values[w][j] = images[(w - 1) * i + j]

C5_Witness ==
    /\ pc = "done"
    /\ device_count = 2
    /\ i = 2
    /\ images[1] # images[2]
    /\ images[2] # images[3]

\* C6: every sub-seed handed to a worker is fresh: no two (iteration,
\* worker) pairs get the same sub-seed, no subkey serves two iterations,
\* and no carried key is ever a subkey or a sub-seed.
C6_FreshSubSeeds ==
    LET Its == 1..Len(handed)
        Ws == 1..device_count
        Carried == {PRNGKey(seed), key} \cup {handed[r].carried : r \in Its}
    IN  /\ \A r, q \in Its : \A w, v \in Ws :
              (r # q \/ w # v) => handed[r].keys[w] # handed[q].keys[v]
        /\ \A r, q \in Its : r # q =>
              /\ handed[r].subkey # handed[q].subkey
              /\ handed[r].carried # handed[q].carried
        /\ \A r \in Its :
              /\ Len(handed[r].keys) = device_count
              /\ handed[r].subkey \notin Carried
              /\ handed[r].carried # PRNGKey(seed)
              /\ \A w \in Ws :
                    /\ handed[r].keys[w] \notin Carried
                    /\ \A q \in Its : handed[r].keys[w] # handed[q].subkey

C6_Witness ==
    /\ pc = "done"
    /\ device_count = 2
    /\ Len(handed) = 2

IsPrefix(a, b) == Len(a) <= Len(b) /\ SubSeq(b, 1, Len(a)) = a

ExpectedStages ==
    Concat([r \in 1..(n_predictions \div device_count) |->
               <<"split", "generate", "strip", "decode", "append">>])
        \o <<"score", "rank">>

ExecutedStages == SelectSeq(stages, LAMBDA x : x # "error")

\* C8: the stages run as a strict linear pipeline: R times generation,
\* stripping, decoding, appending, in that order, then scoring once, then
\* ranking once; and a run in which no stage fails reaches the ranked state.
C8_LinearPipeline ==
    /\ [](IsPrefix(ExecutedStages, ExpectedStages))
    /\ [](pc = "done" => stages = ExpectedStages)
    /\ ([](pc # "failed") => <>(pc = "done"))

C8_Witness ==
    /\ pc = "done"
    /\ i = 2
    /\ stages = ExpectedStages

\* C9: a failure of generation, decoding or scoring ends the run at once in
\* the failed state: no later stage executes, the failed stage is not tried
\* again and nothing is presented.
C9_FailFast ==
    ("error" \in Range(stages) \/ pc = "failed") =>
        /\ pc = "failed"
        /\ stages[Len(stages)] = "error"
        /\ Cardinality({k \in 1..Len(stages) : stages[k] = "error"}) = 1
        /\ "rank" \notin Range(stages)
        /\ shown = <<>>

C9_Witness ==
    /\ pc = "failed"
    /\ Len(images) >= 1
    /\ Len(stages) >= 2
    /\ stages[Len(stages) - 1] = "split"

====
